---- MODULE Spec2Model ----
(***************************************************************************)
(* Model of the Cooking Secret API (src/backend/server.py): the users,     *)
(* recipes, comments, likes, saves, follows and purchases collections of   *)
(* the document store, and the request handlers that mutate them.          *)
(*                                                                         *)
(* Spec      : every handler runs to completion before the next request    *)
(*             starts (one action per handler). Its sub-specifications     *)
(*             SpecSocial, SpecCascade, SpecComments, SpecRecipes,         *)
(*             SpecAccounts, SpecAdmin, SpecLogin, SpecPurchase,           *)
(*             SpecAccess, SpecFrame, SpecChecks and SpecScenario allow    *)
(*             the handlers of one part of the API each.                   *)
(* SpecConc  : like / save / follow requests interleave at their store     *)
(*             calls (each await of the handler is one step).              *)
(* SpecRegConc : register requests interleave at their store calls.        *)
(* SpecDelConc : delete_recipe and like requests interleave at their store *)
(*             calls.                                                      *)
(* SpecFail, SpecToggleFail : requests run one at a time, and a store call *)
(*             of a delete_recipe (like / save / follow) request may       *)
(*             raise.                                                      *)
(***************************************************************************)
EXTENDS Integers, FiniteSets, Sequences, TLC

\* ------------------------------------------------------------------ bounds
MaxRecipes == 1
MaxRows == 2
MaxProcs == 2
MaxConcRows == 2

\* --------------------------------------------------------------- constants
\* Ids are uuid4 strings; the numbers 1, 2, ... stand for the ids handed out and 0
\* for a string that is none of them (a made-up path parameter).
NoSuchId == 0

UserRole == [ADMIN |-> "admin", MODERATOR |-> "moderator", CHEF |-> "chef", USER |-> "user"]

\* Roles with one more value accepted.
RolesWithOwner == {UserRole.ADMIN, UserRole.MODERATOR, UserRole.CHEF, UserRole.USER, "owner"}

\* The values update_user_role accepts.
Roles == {UserRole.ADMIN, UserRole.MODERATOR, UserRole.CHEF, UserRole.USER}

\* ElevatedRoles with chef counted as an elevated role.
ElevatedRolesWithChef == {UserRole.ADMIN, UserRole.MODERATOR, UserRole.CHEF}

\* The role list of the ownership checks: [UserRole.ADMIN, UserRole.MODERATOR].
ElevatedRoles == {UserRole.ADMIN, UserRole.MODERATOR}

\* Request payload values. Emails are unique among users, so no more users than
\* emails are ever stored.
Emails == {"a@x", "b@x"}

Usernames == {"a", "b"}

Prices == {0, 5}

VARIABLES
    users,      \* db.users      : user id -> document
    recipes,    \* db.recipes    : recipe id -> document
    comments,   \* db.comments   : set of documents
    likes,      \* db.likes      : set of documents
    saves,      \* db.saves      : set of documents
    follows,    \* db.follows    : set of documents
    purchases,  \* db.purchases  : set of documents
    nextRecipe, \* number of recipe ids generated so far, plus one
    nextRow,    \* number of comment / relation-row ids generated so far, plus one
    resp,       \* the response to the last completed request
    before,     \* what the last completed toggle request saw before it acted
    reqs        \* the requests in flight (SpecConc): slot -> handler position and locals

db == <<users, recipes, comments, likes, saves, follows, purchases, nextRecipe, nextRow>>

vars == <<users, recipes, comments, likes, saves, follows, purchases, nextRecipe, nextRow,
          resp, before, reqs>>

\* ----------------------------------------------------------- store helpers
UserIds == DOMAIN users

RecipeIds == DOMAIN recipes

\* Path parameters a client can send: an id that was handed out, or a made-up one.
RecipeIdInputs == 0 .. (nextRecipe - 1)

UserIdInputs == {NoSuchId} \cup UserIds

CommentIdInputs == {NoSuchId} \cup {c.id : c \in comments}

\* update_one({"id": r}, {"$inc": {field: d}}) on db.recipes: no match, no change.
IncRecipe(recs, r, field, d) ==
    IF r \in DOMAIN recs THEN [recs EXCEPT ![r][field] = @ + d] ELSE recs

\* update_one({"id": u}, {"$inc": {field: d}}) on db.users.
IncUser(us, u, field, d) ==
    IF u \in DOMAIN us THEN [us EXCEPT ![u][field] = @ + d] ELSE us

\* find({"recipe_id": r, "user_id": a}) on a like / save collection.
RowsOf(coll, a, r) == {x \in coll : x.recipe_id = r /\ x.user_id = a}

\* find({"follower_id": a, "following_id": t}) on db.follows.
FollowsOf(a, t) == {x \in follows : x.follower_id = a /\ x.following_id = t}

\* find({"user_id": a, "recipe_id": r}) on db.purchases.
PurchasesOf(a, r) == {x \in purchases : x.user_id = a /\ x.recipe_id = r}

\* delete_one({"id": i}) on a collection of documents.
DeleteById(coll, i) == {x \in coll : x.id # i}

\* delete_many({"recipe_id": r}).
DeleteByRecipe(coll, r) == {x \in coll : x.recipe_id # r}

\* CanMutate with "or" taken for "and": only an elevated owner passes.
CanMutateBoth(actor, ownerId) ==
    ownerId = actor /\ users[actor].role \in ElevatedRoles

\* The ownership check of update_recipe, delete_recipe and delete_comment: the
\* request is refused iff owner # actor and the actor's role is not elevated.
CanMutate(actor, ownerId) ==
    ownerId = actor \/ users[actor].role \in ElevatedRoles

\* HasRole that lets every role pass.
HasRoleAny(actor, allowed) == TRUE

\* Depends(require_role(allowed)).
HasRole(actor, allowed) == users[actor].role \in allowed

\* str(uuid.uuid4()) for a user: users are never deleted, so the ids handed out are
\* 1 .. number of users.
NewUserId == Cardinality(UserIds) + 1

\* User(...).model_dump() at registration, with the role register stores.
\* The passwords clients send. The registration payload carries the password its
\* email's owner chose: PasswordOf(email).
Passwords == {"pw-a", "pw-b"}

PasswordOf(email) == IF email = "a@x" THEN "pw-a" ELSE "pw-b"

\* bcrypt.hashpw: a digest that is not the password and determines it.
HashPassword(password) == [alg |-> "bcrypt", of |-> password]

\* verify_password accepting every password.
VerifyPasswordAny(password, hashed) == TRUE

\* bcrypt.checkpw
VerifyPassword(password, hashed) == hashed = HashPassword(password)

NewUser(email, username, role) ==
    [email |-> email, username |-> username, role |-> role, is_active |-> TRUE,
     password_hash |-> HashPassword(PasswordOf(email)),
     followers_count |-> 0, following_count |-> 0, recipes_count |-> 0]

\* NewRecipe that stores the requested price also for a free recipe.
NewRecipeKeepsPrice(actor, is_paid, price) ==
    [author_id |-> actor, likes_count |-> 0, comments_count |-> 0, saves_count |-> 0,
     is_featured |-> (users[actor].role = UserRole.CHEF), is_approved |-> TRUE,
     is_paid |-> is_paid, price |-> price]

\* Recipe(...) as create_recipe builds it. Of the payload only is_paid and price are
\* kept: no handler reads the other payload fields.
NewRecipe(actor, is_paid, price) ==
    [author_id |-> actor, likes_count |-> 0, comments_count |-> 0, saves_count |-> 0,
     is_featured |-> (users[actor].role = UserRole.CHEF), is_approved |-> TRUE,
     is_paid |-> is_paid, price |-> IF is_paid THEN price ELSE 0]

\* BootstrapRole counting the stored admins instead of the stored users.
BootstrapRoleNoAdmin ==
    IF \A u \in UserIds : users[u].role # UserRole.ADMIN THEN UserRole.ADMIN ELSE UserRole.USER

\* The role register stores: User defaults to role user, "First user becomes admin"
\* when count_documents({}) is 0.
BootstrapRole ==
    IF Cardinality(UserIds) = 0 THEN UserRole.ADMIN ELSE UserRole.USER

\* result.modified_count of update_one({"id": uid}, {"$set": {"role": role}}): the
\* store counts a document as modified only when the update changes it.
ModifiedCount(uid, role) ==
    IF uid \in UserIds /\ users[uid].role # role THEN 1 ELSE 0

\* RecipeCountOwner taking the acting user for the author.
RecipeCountOwnerActor(actor, r) == actor

\* The user whose recipes_count delete_recipe decrements: recipe["author_id"].
RecipeCountOwner(actor, r) == recipes[r].author_id

\* LikeExists with a lookup that never matches.
LikeExistsNever(actor, r) == FALSE

\* "if existing:" of like_recipe, on find_one({"recipe_id": r, "user_id": a}).
LikeExists(actor, r) == RowsOf(likes, actor, r) # {}

\* "if existing:" of save_recipe.
SaveExists(actor, r) == RowsOf(saves, actor, r) # {}

\* LikeCount without the decrement of the unlike branch.
LikeCountUnlikeKept(recs, r, d) ==
    IF d < 0 THEN recs ELSE IncRecipe(recs, r, "likes_count", d)

\* like_recipe's counter update: update_one({"id": r}, {"$inc": {"likes_count": d}}).
\* LikeCount moving the recipe's saves_count along with its likes_count.
LikeCountBoth(recs, r, d) ==
    IncRecipe(IncRecipe(recs, r, "likes_count", d), r, "saves_count", d)

LikeCount(recs, r, d) == IncRecipe(recs, r, "likes_count", d)

\* CommentCount without the decrement of delete_comment.
CommentCountDeleteKept(recs, r, d) ==
    IF d < 0 THEN recs ELSE IncRecipe(recs, r, "comments_count", d)

\* The counter update of create_comment and delete_comment:
\* update_one({"id": r}, {"$inc": {"comments_count": d}}).
CommentCount(recs, r, d) == IncRecipe(recs, r, "comments_count", d)

\* FollowCounters with an unfollow that forgets the target's followers_count.
FollowCountersOneSided(us, actor, t, d) ==
    IF d < 0 THEN IncUser(us, actor, "following_count", d)
    ELSE IncUser(IncUser(us, actor, "following_count", d), t, "followers_count", d)

\* FollowCounters that moves the actor's following_count only.
FollowCountersActorOnly(us, actor, t, d) == IncUser(us, actor, "following_count", d)

\* The two counter updates of follow_user: the actor's following_count and the
\* target's followers_count move by d.
FollowCounters(us, actor, t, d) ==
    IncUser(IncUser(us, actor, "following_count", d), t, "followers_count", d)

\* IsSelfFollow without the comparison.
IsSelfFollowNever(actor, t) == FALSE

\* "if user_id == current_user['id']" of follow_user.
IsSelfFollow(actor, t) == t = actor

\* AlreadyPurchased with a lookup that never matches.
AlreadyPurchasedNever(actor, r) == FALSE

\* "if existing:" of purchase_recipe.
AlreadyPurchased(actor, r) == PurchasesOf(actor, r) # {}

\* RecipeFound answering for every id ever handed out, deleted recipes included.
RecipeFoundEver(r) == r # NoSuchId /\ r < nextRecipe

\* "if not recipe:" negated, on find_one({"id": r}) of db.recipes.
RecipeFound(r) == r \in RecipeIds

\* IsPaid with the flag ignored: every recipe counts as paid.
IsPaidAlways(r) == TRUE

\* recipe.get("is_paid", False) of purchase_recipe and check_purchased.
IsPaid(r) == recipes[r].is_paid

\* IsAccessible without the clause for admins and moderators.
IsAccessibleNoRoles(actor, r) ==
    \/ ~IsPaid(r)
    \/ recipes[r].author_id = actor
    \/ PurchasesOf(actor, r) # {}

\* The "purchased" value check_purchased returns for a stored recipe: free or own
\* recipe, else admin or moderator, else "existing is not None".
IsAccessible(actor, r) ==
    \/ ~IsPaid(r)
    \/ recipes[r].author_id = actor
    \/ users[actor].role \in ElevatedRoles
    \/ PurchasesOf(actor, r) # {}

\* SetRecipe that also clears the featured flag.
SetRecipeUnfeatured(recs, r, is_paid, price) ==
    [recs EXCEPT ![r].is_paid = is_paid, ![r].price = price, ![r].is_featured = FALSE]

\* update_one({"id": r}, {"$set": update_data}) of update_recipe: update_data is
\* RecipeCreate.model_dump(), of which is_paid and price are kept in the model.
SetRecipe(recs, r, is_paid, price) ==
    [recs EXCEPT ![r].is_paid = is_paid, ![r].price = price]

\* Values a client can send as UpdateUserRole.role: the four roles and another string.
RoleInputs == Roles \cup {"owner"}

\* --------------------------------------------------------------- responses
\* op, actor and target identify the request; status is the HTTP status; flag is
\* the boolean of the body (liked / saved / following / purchased); detail is the
\* body's message, or the role of the returned user.
Reply(op, actor, target, status, flag, detail) ==
    [op |-> op, actor |-> actor, target |-> target, status |-> status,
     flag |-> flag, detail |-> detail]

NoReply == Reply("none", NoSuchId, NoSuchId, 0, FALSE, "")

NoSnapshot == [member |-> FALSE, rcount |-> <<>>, ucount |-> <<>>]

RecipeCounters == [r \in RecipeIds |->
    <<recipes[r].likes_count, recipes[r].saves_count, recipes[r].comments_count>>]

UserCounters == [u \in UserIds |->
    <<users[u].followers_count, users[u].following_count, users[u].recipes_count>>]

\* Whether the relation of kind op holds between actor a and target t.
Member(op, a, t) ==
    CASE op = "like" -> RowsOf(likes, a, t) # {}
      [] op = "save" -> RowsOf(saves, a, t) # {}
      [] op = "follow" -> FollowsOf(a, t) # {}
      [] OTHER -> FALSE

Snapshot(op, a, t) ==
    [member |-> Member(op, a, t), rcount |-> RecipeCounters, ucount |-> UserCounters]

\* A request slot: pc is the handler's position (the next store call), existing the id
\* of the row its find_one returned (NoSuchId for None); email, username and role are
\* the payload and the local user_dict["role"] of a registration, author the
\* recipe["author_id"] delete_recipe has read.
Slots == 1 .. MaxProcs

IdleSlot == [pc |-> "idle", op |-> "none", actor |-> NoSuchId, target |-> NoSuchId,
             existing |-> NoSuchId, email |-> "", username |-> "", role |-> "",
             author |-> NoSuchId]

Idle == [s \in Slots |-> IdleSlot]

Init ==
    /\ users = <<>>
    /\ recipes = <<>>
    /\ comments = {}
    /\ likes = {}
    /\ saves = {}
    /\ follows = {}
    /\ purchases = {}
    /\ nextRecipe = 1
    /\ nextRow = 1
    /\ resp = NoReply
    /\ before = NoSnapshot
    /\ reqs = Idle

\* ------------------------------------------------- handlers, run to completion
\* Every handler below that takes an actor is reached through
\* Depends(get_current_user): the actor is the stored user a valid token names.

\* POST /auth/register
Register(email, username) ==
    /\ before' = NoSnapshot
    /\ UNCHANGED <<recipes, comments, likes, saves, follows, purchases, nextRecipe, nextRow, reqs>>
    /\ IF \E u \in UserIds : users[u].email = email
       THEN /\ resp' = Reply("register", NoSuchId, NoSuchId, 400, FALSE, "Email already registered")
            /\ UNCHANGED users
       ELSE IF \E u \in UserIds : users[u].username = username
       THEN /\ resp' = Reply("register", NoSuchId, NoSuchId, 400, FALSE, "Username already taken")
            /\ UNCHANGED users
       ELSE LET id == NewUserId
                role == BootstrapRole
            IN /\ users' = users @@ (id :> NewUser(email, username, role))
               /\ resp' = Reply("register", id, id, 200, TRUE, role)

\* PUT /users/{user_id}/role
UpdateUserRole(actor, uid, role) ==
    /\ actor \in UserIds
    /\ before' = NoSnapshot
    /\ UNCHANGED <<recipes, comments, likes, saves, follows, purchases, nextRecipe, nextRow, reqs>>
    /\ IF ~HasRole(actor, {UserRole.ADMIN})
       THEN /\ resp' = Reply("update_user_role", actor, uid, 403, FALSE, "Insufficient permissions")
            /\ UNCHANGED users
       ELSE IF role \notin Roles
       THEN /\ resp' = Reply("update_user_role", actor, uid, 400, FALSE, "Invalid role")
            /\ UNCHANGED users
       ELSE IF ModifiedCount(uid, role) = 0
       THEN /\ resp' = Reply("update_user_role", actor, uid, 404, FALSE, "User not found")
            /\ UNCHANGED users
       ELSE /\ users' = [users EXCEPT ![uid].role = role]
            /\ resp' = Reply("update_user_role", actor, uid, 200, TRUE, role)

\* POST /recipes
CreateRecipe(actor, is_paid, price) ==
    /\ actor \in UserIds
    /\ nextRecipe <= MaxRecipes
    /\ before' = NoSnapshot
    /\ UNCHANGED <<comments, likes, saves, follows, purchases, nextRow, reqs>>
    /\ recipes' = recipes @@ (nextRecipe :> NewRecipe(actor, is_paid, price))
    /\ nextRecipe' = nextRecipe + 1
    /\ users' = IncUser(users, actor, "recipes_count", 1)
    /\ resp' = Reply("create_recipe", actor, nextRecipe, 200, TRUE, "")

\* PUT /recipes/{recipe_id}
UpdateRecipe(actor, r, is_paid, price) ==
    /\ actor \in UserIds
    /\ before' = NoSnapshot
    /\ UNCHANGED <<users, comments, likes, saves, follows, purchases, nextRecipe, nextRow, reqs>>
    /\ IF r \notin RecipeIds
       THEN /\ resp' = Reply("update_recipe", actor, r, 404, FALSE, "Recipe not found")
            /\ UNCHANGED recipes
       ELSE IF ~CanMutate(actor, recipes[r].author_id)
       THEN /\ resp' = Reply("update_recipe", actor, r, 403, FALSE, "Not authorized to edit this recipe")
            /\ UNCHANGED recipes
       ELSE /\ recipes' = SetRecipe(recipes, r, is_paid, price)
            /\ resp' = Reply("update_recipe", actor, r, 200, TRUE, "")

\* DELETE /recipes/{recipe_id}
DeleteRecipe(actor, r) ==
    /\ actor \in UserIds
    /\ before' = NoSnapshot
    /\ UNCHANGED <<follows, purchases, nextRecipe, nextRow, reqs>>
    /\ IF r \notin RecipeIds
       THEN /\ resp' = Reply("delete_recipe", actor, r, 404, FALSE, "Recipe not found")
            /\ UNCHANGED <<users, recipes, comments, likes, saves>>
       ELSE IF ~CanMutate(actor, recipes[r].author_id)
       THEN /\ resp' = Reply("delete_recipe", actor, r, 403, FALSE, "Not authorized to delete this recipe")
            /\ UNCHANGED <<users, recipes, comments, likes, saves>>
       ELSE /\ recipes' = [x \in RecipeIds \ {r} |-> recipes[x]]
            /\ comments' = DeleteByRecipe(comments, r)
            /\ likes' = DeleteByRecipe(likes, r)
            /\ saves' = DeleteByRecipe(saves, r)
            /\ users' = IncUser(users, RecipeCountOwner(actor, r), "recipes_count", -1)
            /\ resp' = Reply("delete_recipe", actor, r, 200, TRUE, "Recipe deleted successfully")

\* POST /recipes/{recipe_id}/like
LikeRecipe(actor, r) ==
    /\ actor \in UserIds
    /\ before' = Snapshot("like", actor, r)
    /\ UNCHANGED <<users, comments, saves, follows, purchases, nextRecipe, reqs>>
    /\ IF LikeExists(actor, r)
       THEN \E existing \in RowsOf(likes, actor, r) :
               /\ likes' = DeleteById(likes, existing.id)
               /\ recipes' = LikeCount(recipes, r, -1)
               /\ UNCHANGED nextRow
               /\ resp' = Reply("like", actor, r, 200, FALSE, "Recipe unliked")
       ELSE /\ nextRow <= MaxRows
            /\ likes' = likes \cup {[id |-> nextRow, recipe_id |-> r, user_id |-> actor]}
            /\ nextRow' = nextRow + 1
            /\ recipes' = LikeCount(recipes, r, 1)
            /\ resp' = Reply("like", actor, r, 200, TRUE, "Recipe liked")

\* POST /recipes/{recipe_id}/save
SaveRecipe(actor, r) ==
    /\ actor \in UserIds
    /\ before' = Snapshot("save", actor, r)
    /\ UNCHANGED <<users, comments, likes, follows, purchases, nextRecipe, reqs>>
    /\ IF SaveExists(actor, r)
       THEN \E existing \in RowsOf(saves, actor, r) :
               /\ saves' = DeleteById(saves, existing.id)
               /\ recipes' = IncRecipe(recipes, r, "saves_count", -1)
               /\ UNCHANGED nextRow
               /\ resp' = Reply("save", actor, r, 200, FALSE, "Recipe unsaved")
       ELSE /\ nextRow <= MaxRows
            /\ saves' = saves \cup {[id |-> nextRow, recipe_id |-> r, user_id |-> actor]}
            /\ nextRow' = nextRow + 1
            /\ recipes' = IncRecipe(recipes, r, "saves_count", 1)
            /\ resp' = Reply("save", actor, r, 200, TRUE, "Recipe saved")

\* POST /recipes/{recipe_id}/comments
CreateComment(actor, r) ==
    /\ actor \in UserIds
    /\ nextRow <= MaxRows
    /\ before' = NoSnapshot
    /\ UNCHANGED <<users, likes, saves, follows, purchases, nextRecipe, reqs>>
    /\ comments' = comments \cup {[id |-> nextRow, recipe_id |-> r, user_id |-> actor]}
    /\ nextRow' = nextRow + 1
    /\ recipes' = CommentCount(recipes, r, 1)
    /\ resp' = Reply("create_comment", actor, nextRow, 200, TRUE, "")

\* DELETE /comments/{comment_id}
DeleteComment(actor, c) ==
    /\ actor \in UserIds
    /\ before' = NoSnapshot
    /\ UNCHANGED <<users, likes, saves, follows, purchases, nextRecipe, nextRow, reqs>>
    /\ IF ~\E x \in comments : x.id = c
       THEN /\ resp' = Reply("delete_comment", actor, c, 404, FALSE, "Comment not found")
            /\ UNCHANGED <<comments, recipes>>
       ELSE \E comment \in {x \in comments : x.id = c} :
               IF ~CanMutate(actor, comment.user_id)
               THEN /\ resp' = Reply("delete_comment", actor, c, 403, FALSE, "Not authorized to delete this comment")
                    /\ UNCHANGED <<comments, recipes>>
               ELSE /\ comments' = DeleteById(comments, c)
                    /\ recipes' = CommentCount(recipes, comment.recipe_id, -1)
                    /\ resp' = Reply("delete_comment", actor, c, 200, TRUE, "Comment deleted successfully")

\* POST /users/{user_id}/follow
FollowUser(actor, t) ==
    /\ actor \in UserIds
    /\ UNCHANGED <<recipes, comments, likes, saves, purchases, nextRecipe, reqs>>
    /\ IF IsSelfFollow(actor, t)
       THEN /\ resp' = Reply("follow", actor, t, 400, FALSE, "Cannot follow yourself")
            /\ before' = NoSnapshot
            /\ UNCHANGED <<users, follows, nextRow>>
       ELSE /\ before' = Snapshot("follow", actor, t)
            /\ IF FollowsOf(actor, t) # {}
               THEN \E existing \in FollowsOf(actor, t) :
                       /\ follows' = DeleteById(follows, existing.id)
                       /\ users' = FollowCounters(users, actor, t, -1)
                       /\ UNCHANGED nextRow
                       /\ resp' = Reply("follow", actor, t, 200, FALSE, "Unfollowed")
               ELSE /\ nextRow <= MaxRows
                    /\ follows' = follows \cup
                           {[id |-> nextRow, follower_id |-> actor, following_id |-> t]}
                    /\ nextRow' = nextRow + 1
                    /\ users' = FollowCounters(users, actor, t, 1)
                    /\ resp' = Reply("follow", actor, t, 200, TRUE, "Following")

\* POST /recipes/{recipe_id}/purchase
PurchaseRecipe(actor, r) ==
    /\ actor \in UserIds
    /\ before' = NoSnapshot
    /\ UNCHANGED <<users, recipes, comments, likes, saves, follows, nextRecipe, reqs>>
    /\ IF r \notin RecipeIds
       THEN /\ resp' = Reply("purchase", actor, r, 404, FALSE, "Recipe not found")
            /\ UNCHANGED <<purchases, nextRow>>
       ELSE IF ~IsPaid(r)
       THEN /\ resp' = Reply("purchase", actor, r, 400, FALSE, "This recipe is free")
            /\ UNCHANGED <<purchases, nextRow>>
       ELSE IF AlreadyPurchased(actor, r)
       THEN /\ resp' = Reply("purchase", actor, r, 200, TRUE, "Already purchased")
            /\ UNCHANGED <<purchases, nextRow>>
       ELSE /\ nextRow <= MaxRows
            /\ purchases' = purchases \cup
                   {[id |-> nextRow, user_id |-> actor, recipe_id |-> r,
                     amount |-> recipes[r].price]}
            /\ nextRow' = nextRow + 1
            /\ resp' = Reply("purchase", actor, r, 200, TRUE, "Recipe purchased successfully")

\* GET /recipes/{recipe_id}/purchased. detail carries the body's is_free.
CheckPurchased(actor, r) ==
    /\ actor \in UserIds
    /\ before' = NoSnapshot
    /\ UNCHANGED <<db, reqs>>
    /\ IF ~RecipeFound(r)
       THEN resp' = Reply("check_purchased", actor, r, 404, FALSE, "Recipe not found")
       ELSE resp' = Reply("check_purchased", actor, r, 200, IsAccessible(actor, r),
                          IF IsPaid(r) THEN "not free" ELSE "free")

\* GET /recipes/{recipe_id}: no authentication.
GetRecipe(r) ==
    /\ before' = NoSnapshot
    /\ UNCHANGED <<db, reqs>>
    /\ IF ~RecipeFound(r)
       THEN resp' = Reply("get_recipe", NoSuchId, r, 404, FALSE, "Recipe not found")
       ELSE resp' = Reply("get_recipe", NoSuchId, r, 200, TRUE, "")

\* PUT /users/{user_id}/toggle-active
ToggleUserActive(actor, uid) ==
    /\ actor \in UserIds
    /\ before' = NoSnapshot
    /\ UNCHANGED <<recipes, comments, likes, saves, follows, purchases, nextRecipe, nextRow, reqs>>
    /\ IF ~HasRole(actor, {UserRole.ADMIN})
       THEN /\ resp' = Reply("toggle_user_active", actor, uid, 403, FALSE, "Insufficient permissions")
            /\ UNCHANGED users
       ELSE IF uid \notin UserIds
       THEN /\ resp' = Reply("toggle_user_active", actor, uid, 404, FALSE, "User not found")
            /\ UNCHANGED users
       ELSE LET new_status == ~users[uid].is_active
            IN /\ users' = [users EXCEPT ![uid].is_active = new_status]
               /\ resp' = Reply("toggle_user_active", actor, uid, 200, new_status,
                                IF new_status THEN "User activated successfully"
                                ELSE "User deactivated successfully")

\* GET /users
GetUsers(actor) ==
    /\ actor \in UserIds
    /\ before' = NoSnapshot
    /\ UNCHANGED <<db, reqs>>
    /\ IF ~HasRole(actor, ElevatedRoles)
       THEN resp' = Reply("get_users", actor, NoSuchId, 403, FALSE, "Insufficient permissions")
       ELSE resp' = Reply("get_users", actor, NoSuchId, 200, TRUE, "")

\* POST /auth/login
Login(email, password) ==
    /\ before' = NoSnapshot
    /\ UNCHANGED <<db, reqs>>
    /\ IF ~\E u \in UserIds : users[u].email = email
       THEN resp' = Reply("login", NoSuchId, NoSuchId, 401, FALSE, "Invalid credentials")
       ELSE \E u \in {x \in UserIds : users[x].email = email} :
               IF ~VerifyPassword(password, users[u].password_hash)
               THEN resp' = Reply("login", u, NoSuchId, 401, FALSE, "Invalid credentials")
               ELSE IF ~users[u].is_active
               THEN resp' = Reply("login", u, NoSuchId, 403, FALSE, "Account is deactivated")
               ELSE resp' = Reply("login", u, NoSuchId, 200, TRUE, "token")

\* The check endpoints' answer for every find_one result.
FoundAlways(rows) == TRUE

\* existing is not None
Found(rows) == rows # {}

\* GET /recipes/{recipe_id}/liked
CheckLiked(actor, r) ==
    /\ actor \in UserIds
    /\ before' = NoSnapshot
    /\ UNCHANGED <<db, reqs>>
    /\ resp' = Reply("check_liked", actor, r, 200, Found(RowsOf(likes, actor, r)), "")

\* GET /recipes/{recipe_id}/saved
CheckSaved(actor, r) ==
    /\ actor \in UserIds
    /\ before' = NoSnapshot
    /\ UNCHANGED <<db, reqs>>
    /\ resp' = Reply("check_saved", actor, r, 200, Found(RowsOf(saves, actor, r)), "")

\* GET /users/{user_id}/is-following
CheckFollowing(actor, t) ==
    /\ actor \in UserIds
    /\ before' = NoSnapshot
    /\ UNCHANGED <<db, reqs>>
    /\ resp' = Reply("check_following", actor, t, 200, Found(FollowsOf(actor, t)), "")

\* ------------------------------------------------------------ specification
Next ==
    \/ \E e \in Emails, n \in Usernames : Register(e, n)
    \/ \E a \in UserIds, u \in UserIdInputs, role \in RoleInputs : UpdateUserRole(a, u, role)
    \/ \E a \in UserIds, p \in BOOLEAN, c \in Prices : CreateRecipe(a, p, c)
    \/ \E a \in UserIds, r \in RecipeIdInputs, p \in BOOLEAN, c \in Prices : UpdateRecipe(a, r, p, c)
    \/ \E a \in UserIds, r \in RecipeIdInputs : DeleteRecipe(a, r)
    \/ \E a \in UserIds, r \in RecipeIdInputs : LikeRecipe(a, r)
    \/ \E a \in UserIds, r \in RecipeIdInputs : SaveRecipe(a, r)
    \/ \E a \in UserIds, r \in RecipeIdInputs : CreateComment(a, r)
    \/ \E a \in UserIds, c \in CommentIdInputs : DeleteComment(a, c)
    \/ \E a \in UserIds, t \in UserIdInputs : FollowUser(a, t)
    \/ \E a \in UserIds, r \in RecipeIdInputs : PurchaseRecipe(a, r)
    \/ \E a \in UserIds, r \in RecipeIdInputs : CheckPurchased(a, r)
    \/ \E r \in RecipeIdInputs : GetRecipe(r)
    \/ \E a \in UserIds, u \in UserIdInputs : ToggleUserActive(a, u)
    \/ \E a \in UserIds : GetUsers(a)
    \/ \E a \in UserIds, r \in RecipeIdInputs : CheckLiked(a, r)
    \/ \E a \in UserIds, r \in RecipeIdInputs : CheckSaved(a, r)
    \/ \E a \in UserIds, t \in UserIdInputs : CheckFollowing(a, t)
    \/ \E e \in Emails, p \in Passwords : Login(e, p)

Spec == Init /\ [][Next]_vars

\* The sub-specifications below allow the handlers of one part of the API each; every
\* behaviour of one of them is a behaviour of Spec. TLC explores each of them
\* exhaustively within the bounds.

\* The registration payload of the sub-specifications that are not about accounts:
\* the first caller registers a@x, every later one b@x.
NextAccount == IF UserIds = {} THEN <<"a@x", "a">> ELSE <<"b@x", "b">>

\* Likes, saves and follows on recipes that come and go.
NextSocial ==
    \/ Register(NextAccount[1], NextAccount[2])
    \/ \E a \in UserIds : CreateRecipe(a, FALSE, 0)
    \/ \E a \in UserIds, r \in RecipeIdInputs : DeleteRecipe(a, r)
    \/ \E a \in UserIds, r \in RecipeIdInputs : LikeRecipe(a, r)
    \/ \E a \in UserIds, r \in RecipeIdInputs : SaveRecipe(a, r)
    \/ \E a \in UserIds, t \in UserIdInputs : FollowUser(a, t)

SpecSocial == Init /\ [][NextSocial]_vars

\* Recipe deletion with comments, likes and saves attached.
NextCascade ==
    \/ Register(NextAccount[1], NextAccount[2])
    \/ \E a \in UserIds : CreateRecipe(a, FALSE, 0)
    \/ \E a \in UserIds, r \in RecipeIdInputs : DeleteRecipe(a, r)
    \/ \E a \in UserIds, r \in RecipeIdInputs : LikeRecipe(a, r)
    \/ \E a \in UserIds, r \in RecipeIdInputs : SaveRecipe(a, r)
    \/ \E a \in UserIds, r \in RecipeIdInputs : CreateComment(a, r)
    \/ \E a \in UserIds, c \in CommentIdInputs : DeleteComment(a, c)

SpecCascade == Init /\ [][NextCascade]_vars

\* Comments under changing roles: the first user, the administrator, assigns the
\* roles of the others.
NextComments ==
    \/ Register(NextAccount[1], NextAccount[2])
    \/ \E u \in UserIds \ {1}, role \in Roles : UpdateUserRole(1, u, role)
    \/ \E a \in UserIds : CreateRecipe(a, FALSE, 0)
    \/ \E a \in UserIds, r \in RecipeIdInputs : CreateComment(a, r)
    \/ \E a \in UserIds, c \in CommentIdInputs : DeleteComment(a, c)

SpecComments == Init /\ [][NextComments]_vars

\* Recipe edits and deletions under changing roles, assigned as in SpecComments.
NextRecipes ==
    \/ Register(NextAccount[1], NextAccount[2])
    \/ \E u \in UserIds \ {1}, role \in Roles : UpdateUserRole(1, u, role)
    \/ \E a \in UserIds, p \in BOOLEAN : CreateRecipe(a, p, 5)
    \/ \E a \in UserIds, r \in RecipeIdInputs, p \in BOOLEAN : UpdateRecipe(a, r, p, 5)
    \/ \E a \in UserIds, r \in RecipeIdInputs : DeleteRecipe(a, r)
    \/ \E a \in UserIds, r \in RecipeIds : CreateComment(a, r)

SpecRecipes == Init /\ [][NextRecipes]_vars

\* Accounts and roles.
NextAccounts ==
    \/ \E e \in Emails, n \in Usernames : Register(e, n)
    \/ \E a \in UserIds, u \in UserIdInputs, role \in RoleInputs : UpdateUserRole(a, u, role)

SpecAccounts == Init /\ [][NextAccounts]_vars

\* Accounts, roles, activation and the listing of users.
NextAdmin ==
    \/ NextAccounts
    \/ \E a \in UserIds, u \in UserIdInputs : ToggleUserActive(a, u)
    \/ \E a \in UserIds : GetUsers(a)

SpecAdmin == Init /\ [][NextAdmin]_vars

\* Registration, roles, activation and login.
NextLogin ==
    \/ \E e \in Emails, n \in Usernames : Register(e, n)
    \/ \E a \in UserIds, u \in UserIds, role \in Roles : UpdateUserRole(a, u, role)
    \/ \E a \in UserIds, u \in UserIdInputs : ToggleUserActive(a, u)
    \/ \E e \in Emails, p \in Passwords : Login(e, p)

SpecLogin == Init /\ [][NextLogin]_vars

\* Purchases of recipes that are edited and deleted.
NextPurchase ==
    \/ Register(NextAccount[1], NextAccount[2])
    \/ \E a \in UserIds, p \in BOOLEAN, c \in Prices : CreateRecipe(a, p, c)
    \/ \E a \in UserIds, r \in RecipeIdInputs, p \in BOOLEAN, c \in Prices : UpdateRecipe(a, r, p, c)
    \/ \E a \in UserIds, r \in RecipeIdInputs : DeleteRecipe(a, r)
    \/ \E a \in UserIds, r \in RecipeIdInputs : PurchaseRecipe(a, r)

SpecPurchase == Init /\ [][NextPurchase]_vars

\* Likes and comments on recipes that come and go, and the public read of a recipe.
NextScenario ==
    \/ Register(NextAccount[1], NextAccount[2])
    \/ \E a \in UserIds : CreateRecipe(a, FALSE, 0)
    \/ \E a \in UserIds, r \in RecipeIdInputs : DeleteRecipe(a, r)
    \/ \E a \in UserIds, r \in RecipeIdInputs : LikeRecipe(a, r)
    \/ \E a \in UserIds, r \in RecipeIdInputs : CreateComment(a, r)
    \/ \E a \in UserIds, c \in CommentIdInputs : DeleteComment(a, c)
    \/ \E r \in RecipeIdInputs : GetRecipe(r)

SpecScenario == Init /\ [][NextScenario]_vars

\* Access to paid recipes under changing roles, assigned as in SpecComments.
NextAccess ==
    \/ Register(NextAccount[1], NextAccount[2])
    \/ \E u \in UserIds \ {1}, role \in Roles : UpdateUserRole(1, u, role)
    \/ \E a \in UserIds, p \in BOOLEAN : CreateRecipe(a, p, 5)
    \/ \E a \in UserIds, r \in RecipeIdInputs, p \in BOOLEAN : UpdateRecipe(a, r, p, 5)
    \/ \E a \in UserIds, r \in RecipeIdInputs : DeleteRecipe(a, r)
    \/ \E a \in UserIds, r \in RecipeIdInputs : PurchaseRecipe(a, r)
    \/ \E a \in UserIds, r \in RecipeIdInputs : CheckPurchased(a, r)

SpecAccess == Init /\ [][NextAccess]_vars

\* Likes and saves next to comments, follows and purchases.
NextFrame ==
    \/ Register(NextAccount[1], NextAccount[2])
    \/ \E a \in UserIds : CreateRecipe(a, TRUE, 5)
    \/ \E a \in UserIds, r \in RecipeIds : LikeRecipe(a, r)
    \/ \E a \in UserIds, r \in RecipeIds : SaveRecipe(a, r)
    \/ \E a \in UserIds, r \in RecipeIds : CreateComment(a, r)
    \/ \E a \in UserIds, t \in UserIds : FollowUser(a, t)
    \/ \E a \in UserIds, r \in RecipeIds : PurchaseRecipe(a, r)

SpecFrame == Init /\ [][NextFrame]_vars

\* The three toggles and their check endpoints.
NextChecks ==
    \/ Register(NextAccount[1], NextAccount[2])
    \/ \E a \in UserIds : CreateRecipe(a, FALSE, 0)
    \/ \E a \in UserIds, r \in RecipeIds : LikeRecipe(a, r)
    \/ \E a \in UserIds, r \in RecipeIds : SaveRecipe(a, r)
    \/ \E a \in UserIds, t \in UserIds : FollowUser(a, t)
    \/ \E a \in UserIds, r \in RecipeIds : CheckLiked(a, r)
    \/ \E a \in UserIds, r \in RecipeIds : CheckSaved(a, r)
    \/ \E a \in UserIds, t \in UserIds : CheckFollowing(a, t)

SpecChecks == Init /\ [][NextChecks]_vars

\* ------------------------------------- like / save / follow, one store call a step
\* The handlers are coroutines: every "await db...." hands control to the event loop,
\* so the store calls of requests in flight interleave.

\* A request arrives; get_current_user has resolved the actor. The slots are
\* interchangeable, so a request takes the first free one.
\* follow_user refuses a self-follow before its first store call.
Begin(s, op, actor, t) ==
    /\ reqs[s].pc = "idle"
    /\ \A z \in Slots : z < s => reqs[z].pc # "idle"
    /\ actor \in UserIds
    /\ UNCHANGED db
    /\ IF op = "follow" /\ IsSelfFollow(actor, t)
       THEN /\ resp' = Reply("follow", actor, t, 400, FALSE, "Cannot follow yourself")
            /\ before' = NoSnapshot
            /\ UNCHANGED reqs
       ELSE /\ reqs' = [reqs EXCEPT ![s] = [IdleSlot EXCEPT !.pc = "find", !.op = op,
                                                            !.actor = actor, !.target = t]]
            /\ UNCHANGED <<resp, before>>

ToggleOps == {"like", "save", "follow"}

\* The path parameter of an interleaved toggle request: the id of a stored recipe,
\* or for follow of a stored user.
ToggleTargets(op) == IF op = "follow" THEN UserIds ELSE RecipeIds

\* The body a toggle handler returns on the branch it took.
ToggleReply(q) ==
    LET on == q.pc \in {"inc", "inc2"} IN
    Reply(q.op, q.actor, q.target, 200, on,
          CASE q.op = "like" -> IF on THEN "Recipe liked" ELSE "Recipe unliked"
            [] q.op = "save" -> IF on THEN "Recipe saved" ELSE "Recipe unsaved"
            [] q.op = "follow" -> IF on THEN "Following" ELSE "Unfollowed")

\* The rows the handler's find_one can return.
Matches(q) ==
    CASE q.op = "like" -> RowsOf(likes, q.actor, q.target)
      [] q.op = "save" -> RowsOf(saves, q.actor, q.target)
      [] q.op = "follow" -> FollowsOf(q.actor, q.target)

\* existing = await db.<coll>.find_one({...})
Find(s) ==
    /\ reqs[s].pc = "find"
    /\ UNCHANGED <<db, resp, before>>
    /\ IF Matches(reqs[s]) = {}
       THEN reqs' = [reqs EXCEPT ![s].pc = "insert"]
       ELSE \E x \in Matches(reqs[s]) :
               reqs' = [reqs EXCEPT ![s].pc = "delete", ![s].existing = x.id]

\* await db.<coll>.insert_one(row.model_dump())
Insert(s) ==
    /\ reqs[s].pc = "insert"
    /\ nextRow <= MaxConcRows
    /\ LET q == reqs[s] IN
       /\ likes' = IF q.op = "like"
                   THEN likes \cup {[id |-> nextRow, recipe_id |-> q.target, user_id |-> q.actor]}
                   ELSE likes
       /\ saves' = IF q.op = "save"
                   THEN saves \cup {[id |-> nextRow, recipe_id |-> q.target, user_id |-> q.actor]}
                   ELSE saves
       /\ follows' = IF q.op = "follow"
                     THEN follows \cup {[id |-> nextRow, follower_id |-> q.actor,
                                         following_id |-> q.target]}
                     ELSE follows
    /\ nextRow' = nextRow + 1
    /\ reqs' = [reqs EXCEPT ![s].pc = "inc"]
    /\ UNCHANGED <<users, recipes, comments, purchases, nextRecipe, resp, before>>

\* await db.<coll>.delete_one({"id": existing["id"]})
Delete(s) ==
    /\ reqs[s].pc = "delete"
    /\ LET q == reqs[s] IN
       /\ likes' = IF q.op = "like" THEN DeleteById(likes, q.existing) ELSE likes
       /\ saves' = IF q.op = "save" THEN DeleteById(saves, q.existing) ELSE saves
       /\ follows' = IF q.op = "follow" THEN DeleteById(follows, q.existing) ELSE follows
    /\ reqs' = [reqs EXCEPT ![s].pc = "dec"]
    /\ UNCHANGED <<users, recipes, comments, purchases, nextRecipe, nextRow, resp, before>>

\* The first counter update after the insert or the delete: the recipe's counter, or
\* for follow_user the actor's following_count.
Count(s) ==
    /\ reqs[s].pc \in {"inc", "dec"}
    /\ LET q == reqs[s]
           d == IF q.pc = "inc" THEN 1 ELSE -1
       IN /\ recipes' = CASE q.op = "like" -> IncRecipe(recipes, q.target, "likes_count", d)
                          [] q.op = "save" -> IncRecipe(recipes, q.target, "saves_count", d)
                          [] OTHER -> recipes
          /\ users' = IF q.op = "follow"
                      THEN IncUser(users, q.actor, "following_count", d)
                      ELSE users
          /\ IF q.op = "follow"
             THEN /\ reqs' = [reqs EXCEPT ![s].pc = IF q.pc = "inc" THEN "inc2" ELSE "dec2"]
                  /\ UNCHANGED resp
             ELSE /\ reqs' = [reqs EXCEPT ![s] = IdleSlot]
                  /\ resp' = ToggleReply(q)
    /\ before' = NoSnapshot
    /\ UNCHANGED <<comments, likes, saves, follows, purchases, nextRecipe, nextRow>>

\* follow_user's second counter update: the target's followers_count.
CountTarget(s) ==
    /\ reqs[s].pc \in {"inc2", "dec2"}
    /\ LET q == reqs[s]
           d == IF q.pc = "inc2" THEN 1 ELSE -1
       IN /\ users' = IncUser(users, q.target, "followers_count", d)
          /\ resp' = ToggleReply(q)
    /\ reqs' = [reqs EXCEPT ![s] = IdleSlot]
    /\ before' = NoSnapshot
    /\ UNCHANGED <<recipes, comments, likes, saves, follows, purchases, nextRecipe, nextRow>>

NextConc ==
    \/ Register(NextAccount[1], NextAccount[2])
    \/ \E a \in UserIds : CreateRecipe(a, FALSE, 0)
    \/ \E s \in Slots, op \in ToggleOps, a \in UserIds :
          \E t \in ToggleTargets(op) : Begin(s, op, a, t)
    \/ \E s \in Slots : Find(s)
    \/ \E s \in Slots : Insert(s)
    \/ \E s \in Slots : Delete(s)
    \/ \E s \in Slots : Count(s)
    \/ \E s \in Slots : CountTarget(s)

SpecConc == Init /\ [][NextConc]_vars

\* ------------------------------------------------ register, one store call a step
\* A registration arrives with its payload; it takes the first free slot.
RegBegin(s, email, username) ==
    /\ reqs[s].pc = "idle"
    /\ \A z \in Slots : z < s => reqs[z].pc # "idle"
    /\ reqs' = [reqs EXCEPT ![s] = [IdleSlot EXCEPT !.pc = "find_email", !.op = "register",
                                                    !.email = email, !.username = username]]
    /\ UNCHANGED <<db, resp, before>>

\* existing_email = await db.users.find_one({"email": user_data.email})
RegFindEmail(s) ==
    /\ reqs[s].pc = "find_email"
    /\ before' = NoSnapshot
    /\ UNCHANGED db
    /\ IF \E u \in UserIds : users[u].email = reqs[s].email
       THEN /\ resp' = Reply("register", NoSuchId, NoSuchId, 400, FALSE, "Email already registered")
            /\ reqs' = [reqs EXCEPT ![s] = IdleSlot]
       ELSE /\ reqs' = [reqs EXCEPT ![s].pc = "find_username"]
            /\ UNCHANGED resp

\* existing_username = await db.users.find_one({"username": user_data.username})
RegFindUsername(s) ==
    /\ reqs[s].pc = "find_username"
    /\ before' = NoSnapshot
    /\ UNCHANGED db
    /\ IF \E u \in UserIds : users[u].username = reqs[s].username
       THEN /\ resp' = Reply("register", NoSuchId, NoSuchId, 400, FALSE, "Username already taken")
            /\ reqs' = [reqs EXCEPT ![s] = IdleSlot]
       ELSE /\ reqs' = [reqs EXCEPT ![s].pc = "count"]
            /\ UNCHANGED resp

\* user_count = await db.users.count_documents({}), and the role it decides.
RegCount(s) ==
    /\ reqs[s].pc = "count"
    /\ reqs' = [reqs EXCEPT ![s].pc = "insert_user", ![s].role = BootstrapRole]
    /\ UNCHANGED <<db, resp, before>>

\* await db.users.insert_one(user_dict), and the response.
RegInsert(s) ==
    /\ reqs[s].pc = "insert_user"
    /\ LET q == reqs[s]
           id == NewUserId
       IN /\ users' = users @@ (id :> NewUser(q.email, q.username, q.role))
          /\ resp' = Reply("register", id, id, 200, TRUE, q.role)
    /\ reqs' = [reqs EXCEPT ![s] = IdleSlot]
    /\ before' = NoSnapshot
    /\ UNCHANGED <<recipes, comments, likes, saves, follows, purchases, nextRecipe, nextRow>>

NextRegConc ==
    \/ \E s \in Slots, e \in Emails, n \in Usernames : RegBegin(s, e, n)
    \/ \E s \in Slots : RegFindEmail(s)
    \/ \E s \in Slots : RegFindUsername(s)
    \/ \E s \in Slots : RegCount(s)
    \/ \E s \in Slots : RegInsert(s)

SpecRegConc == Init /\ [][NextRegConc]_vars

\* ------------------------------------------- store calls that fail (raise)
\* No handler wraps its store calls in try / except, and the application installs no
\* exception handler: an exception raised by an awaited store call ends the handler
\* where it stands, and the framework answers 500. What the earlier store calls of
\* the request wrote stays written.

\* Raised answering success, as a handler that swallowed the exception would.
RaisedSwallowed(q) == Reply(q.op, q.actor, q.target, 200, TRUE, "")

\* The response to a request whose store call raised.
Raised(q) == Reply(q.op, q.actor, q.target, 500, FALSE, "Internal Server Error")

\* The store call the request in slot s is about to make raises.
Fail(s) ==
    /\ reqs[s].pc # "idle"
    /\ resp' = Raised(reqs[s])
    /\ reqs' = [reqs EXCEPT ![s] = IdleSlot]
    /\ before' = NoSnapshot
    /\ UNCHANGED db

\* ------------------------------------------- delete_recipe, one store call a step
DelBegin(s, actor, r) ==
    /\ reqs[s].pc = "idle"
    /\ \A z \in Slots : z < s => reqs[z].pc # "idle"
    /\ actor \in UserIds
    /\ reqs' = [reqs EXCEPT ![s] = [IdleSlot EXCEPT !.pc = "find_recipe",
                                                    !.op = "delete_recipe",
                                                    !.actor = actor, !.target = r]]
    /\ UNCHANGED <<db, resp, before>>

\* recipe = await db.recipes.find_one({"id": recipe_id}), and the two checks on it.
DelFind(s) ==
    /\ reqs[s].pc = "find_recipe"
    /\ before' = NoSnapshot
    /\ UNCHANGED db
    /\ LET q == reqs[s] IN
       IF ~RecipeFound(q.target)
       THEN /\ resp' = Reply("delete_recipe", q.actor, q.target, 404, FALSE, "Recipe not found")
            /\ reqs' = [reqs EXCEPT ![s] = IdleSlot]
       ELSE IF ~CanMutate(q.actor, recipes[q.target].author_id)
       THEN /\ resp' = Reply("delete_recipe", q.actor, q.target, 403, FALSE,
                             "Not authorized to delete this recipe")
            /\ reqs' = [reqs EXCEPT ![s] = IdleSlot]
       ELSE /\ reqs' = [reqs EXCEPT ![s].pc = "del_recipe",
                                    ![s].author = RecipeCountOwner(q.actor, q.target)]
            /\ UNCHANGED resp

\* await db.recipes.delete_one({"id": recipe_id})
DelRecipe(s) ==
    /\ reqs[s].pc = "del_recipe"
    /\ recipes' = [x \in RecipeIds \ {reqs[s].target} |-> recipes[x]]
    /\ reqs' = [reqs EXCEPT ![s].pc = "del_comments"]
    /\ UNCHANGED <<users, comments, likes, saves, follows, purchases, nextRecipe, nextRow,
                   resp, before>>

\* await db.comments.delete_many({"recipe_id": recipe_id})
DelComments(s) ==
    /\ reqs[s].pc = "del_comments"
    /\ comments' = DeleteByRecipe(comments, reqs[s].target)
    /\ reqs' = [reqs EXCEPT ![s].pc = "del_likes"]
    /\ UNCHANGED <<users, recipes, likes, saves, follows, purchases, nextRecipe, nextRow,
                   resp, before>>

\* await db.likes.delete_many({"recipe_id": recipe_id})
DelLikes(s) ==
    /\ reqs[s].pc = "del_likes"
    /\ likes' = DeleteByRecipe(likes, reqs[s].target)
    /\ reqs' = [reqs EXCEPT ![s].pc = "del_saves"]
    /\ UNCHANGED <<users, recipes, comments, saves, follows, purchases, nextRecipe, nextRow,
                   resp, before>>

\* await db.saves.delete_many({"recipe_id": recipe_id})
DelSaves(s) ==
    /\ reqs[s].pc = "del_saves"
    /\ saves' = DeleteByRecipe(saves, reqs[s].target)
    /\ reqs' = [reqs EXCEPT ![s].pc = "dec_author"]
    /\ UNCHANGED <<users, recipes, comments, likes, follows, purchases, nextRecipe, nextRow,
                   resp, before>>

\* await db.users.update_one({"id": recipe["author_id"]}, {"$inc": {"recipes_count": -1}})
\* and the response.
DecAuthor(s) ==
    /\ reqs[s].pc = "dec_author"
    /\ users' = IncUser(users, reqs[s].author, "recipes_count", -1)
    /\ resp' = Reply("delete_recipe", reqs[s].actor, reqs[s].target, 200, TRUE,
                     "Recipe deleted successfully")
    /\ reqs' = [reqs EXCEPT ![s] = IdleSlot]
    /\ before' = NoSnapshot
    /\ UNCHANGED <<recipes, comments, likes, saves, follows, purchases, nextRecipe, nextRow>>

\* No request is in flight.
Quiet == \A s \in Slots : reqs[s].pc = "idle"

\* Requests run one at a time (slot 1 only); the store calls of a delete_recipe
\* request may raise.
NextFail ==
    \/ Quiet /\ Register(NextAccount[1], NextAccount[2])
    \/ Quiet /\ \E a \in UserIds : CreateRecipe(a, FALSE, 0)
    \/ Quiet /\ \E a \in UserIds, r \in RecipeIds : CreateComment(a, r)
    \/ Quiet /\ \E a \in UserIds, r \in RecipeIds : LikeRecipe(a, r)
    \/ Quiet /\ \E a \in UserIds, r \in RecipeIds : SaveRecipe(a, r)
    \/ \E a \in UserIds, r \in RecipeIdInputs : DelBegin(1, a, r)
    \/ DelFind(1)
    \/ DelRecipe(1)
    \/ DelComments(1)
    \/ DelLikes(1)
    \/ DelSaves(1)
    \/ DecAuthor(1)
    \/ Fail(1)

SpecFail == Init /\ [][NextFail]_vars

\* Requests run one at a time (slot 1 only); the store calls of a like, save or
\* follow request may raise.
NextToggleFail ==
    \/ Quiet /\ Register(NextAccount[1], NextAccount[2])
    \/ Quiet /\ \E a \in UserIds : CreateRecipe(a, FALSE, 0)
    \/ \E op \in ToggleOps, a \in UserIds : \E t \in ToggleTargets(op) : Begin(1, op, a, t)
    \/ Find(1)
    \/ Insert(1)
    \/ Delete(1)
    \/ Count(1)
    \/ CountTarget(1)
    \/ Fail(1)

SpecToggleFail == Init /\ [][NextToggleFail]_vars

\* delete_recipe and like requests interleave at their store calls; accounts and
\* recipes are created while no request is in flight.
NextDelConc ==
    \/ Quiet /\ Register(NextAccount[1], NextAccount[2])
    \/ Quiet /\ \E a \in UserIds : CreateRecipe(a, FALSE, 0)
    \/ \E s \in Slots, a \in UserIds, r \in RecipeIds : DelBegin(s, a, r)
    \/ \E s \in Slots, a \in UserIds, r \in RecipeIds : Begin(s, "like", a, r)
    \/ \E s \in Slots : Find(s)
    \/ \E s \in Slots : Insert(s)
    \/ \E s \in Slots : Delete(s)
    \/ \E s \in Slots : Count(s)
    \/ \E s \in Slots : DelFind(s)
    \/ \E s \in Slots : DelRecipe(s)
    \/ \E s \in Slots : DelComments(s)
    \/ \E s \in Slots : DelLikes(s)
    \/ \E s \in Slots : DelSaves(s)
    \/ \E s \in Slots : DecAuthor(s)

SpecDelConc == Init /\ [][NextDelConc]_vars

\* ------------------------------------------------------------------ claims

\* C1: after any sequence of like toggles run one at a time, every existing recipe's
\* likes_count equals the number of Like rows whose recipe_id is that recipe.
C1_LikesCountMatchesRows ==
    \A r \in RecipeIds :
        recipes[r].likes_count = Cardinality({l \in likes : l.recipe_id = r})

\* One user has withdrawn a like while the other's like on the same recipe stands.
C1_Witness ==
    /\ resp.op = "like" /\ ~resp.flag /\ resp.target \in RecipeIds
    /\ recipes[resp.target].likes_count = 1

\* C3: with operations run one at a time there is at most one Like row and at most
\* one Save row for each (user_id, recipe_id) pair.
C3_OneRowPerPair ==
    /\ \A x, y \in likes : (x.user_id = y.user_id /\ x.recipe_id = y.recipe_id) => x = y
    /\ \A x, y \in saves : (x.user_id = y.user_id /\ x.recipe_id = y.recipe_id) => x = y

\* A like was just inserted for a pair that also has a save: one row of each.
C3_Witness ==
    /\ resp.op = "like" /\ resp.flag
    /\ Cardinality(RowsOf(likes, resp.actor, resp.target)) = 1
    /\ Cardinality(RowsOf(saves, resp.actor, resp.target)) = 1

\* C4: a second like / save / follow toggle of the same (actor, target) pair, right
\* after the first, restores the pair's membership in the relation and every
\* recipe and user counter to what the first toggle found (so does every even
\* number of toggles in a row).
C4_ToggleTwiceRestores ==
    [][(/\ resp.op \in {"like", "save", "follow"} /\ resp.status = 200
        /\ resp'.op = resp.op /\ resp'.actor = resp.actor /\ resp'.target = resp.target)
       => Snapshot(resp.op, resp.actor, resp.target)' = before]_vars

\* A follow was toggled on and off again: the only row ever inserted is gone.
C4_Witness ==
    /\ resp.op = "follow" /\ resp.status = 200 /\ ~resp.flag
    /\ before.member /\ nextRow = 2 /\ follows = {}

\* C5: a follow request whose target is the acting user fails with 400 and changes
\* neither the Follow collection nor any user's counters; no Follow row has
\* follower_id equal to following_id.
C5_SelfFollowRefused ==
    /\ [](\A f \in follows : f.follower_id # f.following_id)
    /\ [][(resp'.op = "follow" /\ resp'.actor = resp'.target)
          => (resp'.status = 400 /\ follows' = follows /\ users' = users)]_vars

\* A self-follow was refused while another user is being followed.
C5_Witness ==
    /\ resp.op = "follow" /\ resp.actor = resp.target /\ resp.status = 400
    /\ follows # {}

\* C2: toggle requests by one actor on one target that interleave at their store
\* calls never insert two relation rows for the pair, never decrement a counter
\* twice for one row, and once all requests have completed every counter equals
\* the number of relation rows.
C2_ConcurrentTogglesAtomic ==
    /\ \A x, y \in likes : (x.user_id = y.user_id /\ x.recipe_id = y.recipe_id) => x = y
    /\ \A x, y \in saves : (x.user_id = y.user_id /\ x.recipe_id = y.recipe_id) => x = y
    /\ \A x, y \in follows :
          (x.follower_id = y.follower_id /\ x.following_id = y.following_id) => x = y
    /\ \A s, z \in Slots :
          (/\ reqs[s].pc \in {"dec", "dec2"} /\ reqs[z].pc \in {"dec", "dec2"}
           /\ reqs[s].op = reqs[z].op /\ reqs[s].existing = reqs[z].existing) => s = z
    /\ (\A s \in Slots : reqs[s].pc = "idle") =>
          /\ \A r \in RecipeIds :
                /\ recipes[r].likes_count = Cardinality({l \in likes : l.recipe_id = r})
                /\ recipes[r].saves_count = Cardinality({l \in saves : l.recipe_id = r})
          /\ \A u \in UserIds :
                /\ users[u].following_count = Cardinality({f \in follows : f.follower_id = u})
                /\ users[u].followers_count = Cardinality({f \in follows : f.following_id = u})

\* C6: a successful delete_recipe removes the recipe and every Comment, Like and
\* Save row that references it, and decrements the recipes_count of the recipe's
\* author, and of nobody else, by exactly 1.
C6_DeleteRecipeCascades ==
    [][(resp'.op = "delete_recipe" /\ resp'.status = 200 /\ resp'.target \in RecipeIds)
       => LET r == resp'.target IN
          /\ r \notin DOMAIN recipes'
          /\ \A x \in comments' \cup likes' \cup saves' : x.recipe_id # r
          /\ users' = [users EXCEPT ![recipes[r].author_id].recipes_count = @ - 1]]_vars

\* A delete succeeded after two rows had been inserted; no row is left and no
\* user counts a recipe.
C6_Witness ==
    /\ resp.op = "delete_recipe" /\ resp.status = 200
    /\ nextRow = 3 /\ comments = {} /\ likes = {} /\ saves = {}
    /\ \A u \in UserIds : users[u].recipes_count = 0

\* C7: with registrations run one at a time, a successful registration stores the
\* new user with role admin when no user was stored before it and with role user
\* otherwise, also when no stored user is an admin any more; it changes no other
\* user.
C7_FirstUserAdminOthersUser ==
    [][(resp'.op = "register" /\ resp'.status = 200 /\ resp' # resp)
       => LET id == resp'.target
              role == IF UserIds = {} THEN "admin" ELSE "user"
          IN /\ id \notin UserIds
             /\ DOMAIN users' = UserIds \cup {id}
             /\ users'[id].role = role
             /\ resp'.detail = role
             /\ \A u \in UserIds : users'[u] = users[u]]_vars

\* The second user registered after the first one gave up the admin role.
C7_Witness ==
    /\ resp.op = "register" /\ resp.status = 200 /\ resp.target = 2
    /\ users[1].role # "admin" /\ users[2].role = "user"

\* C8: delete_comment on a stored comment succeeds iff the actor is the comment's
\* owner or has role admin or moderator; otherwise it answers 403 and leaves the
\* comments and the recipes (their comments_count) unchanged.
C8_DeleteCommentGate ==
    [][\A c \in comments :
          (resp'.op = "delete_comment" /\ resp'.target = c.id /\ resp' # resp)
          => IF resp'.actor = c.user_id \/ users[resp'.actor].role \in {"admin", "moderator"}
             THEN resp'.status = 200 /\ comments' = comments \ {c}
             ELSE resp'.status = 403 /\ comments' = comments /\ recipes' = recipes]_vars

\* A chef who does not own the comment was refused.
C8_Witness ==
    /\ resp.op = "delete_comment" /\ resp.status = 403
    /\ users[resp.actor].role = "chef"
    /\ \E c \in comments : c.id = resp.target /\ c.user_id # resp.actor

\* C9: update_recipe and delete_recipe on a stored recipe succeed iff the actor is
\* the recipe's author or has role admin or moderator; otherwise they answer 403
\* and leave the recipes, the comments, likes and saves and the users unchanged.
C9_RecipeGate ==
    [][\A r \in RecipeIds :
          (resp'.op \in {"update_recipe", "delete_recipe"} /\ resp'.target = r /\ resp' # resp)
          => IF resp'.actor = recipes[r].author_id
                \/ users[resp'.actor].role \in {"admin", "moderator"}
             THEN /\ resp'.status = 200
                  /\ (resp'.op = "delete_recipe") <=> (r \notin DOMAIN recipes')
             ELSE /\ resp'.status = 403
                  /\ recipes' = recipes /\ users' = users
                  /\ comments' = comments /\ likes' = likes /\ saves' = saves]_vars

\* A chef who is not the author was refused an edit of a commented recipe.
C9_Witness ==
    /\ resp.op = "update_recipe" /\ resp.status = 403
    /\ users[resp.actor].role = "chef"
    /\ resp.target \in RecipeIds /\ recipes[resp.target].author_id # resp.actor
    /\ recipes[resp.target].comments_count > 0

\* C10: a purchase_recipe call that succeeds reports purchased = true, and a second
\* call by the same user on the same recipe right after it also succeeds with
\* purchased = true and leaves exactly one Purchase row for the pair.
C10_PurchaseTwiceOneRow ==
    [][/\ (resp'.op = "purchase" /\ resp'.status = 200)
          => /\ resp'.flag
             /\ \E x \in purchases' : x.user_id = resp'.actor /\ x.recipe_id = resp'.target
       /\ (/\ resp.op = "purchase" /\ resp.status = 200
           /\ resp'.op = "purchase" /\ resp'.actor = resp.actor /\ resp'.target = resp.target)
          => /\ resp'.status = 200 /\ resp'.flag
             /\ Cardinality(PurchasesOf(resp.actor, resp.target)') = 1]_vars

\* The second call found the purchase of the first.
C10_Witness ==
    /\ resp.op = "purchase" /\ resp.status = 200 /\ resp.flag
    /\ resp.detail = "Already purchased"
    /\ Cardinality(PurchasesOf(resp.actor, resp.target)) = 1

\* C11: the scenario, step by step. From the empty store, registering A stores an
\* admin and registering B a user; then A's create_recipe stores X with counters 0,
\* B's like sets likes_count to 1 and B's second like sets it back to 0, B's comment
\* sets comments_count to 1 and A's delete of that comment sets it back to 0, A's
\* delete of X removes X, and a read of X answers 404.
C11_ScenarioStepByStep ==
    [][LET UsersAB == UserIds = {1, 2} /\ users[1].role = "admin" /\ users[2].role = "user"
           X(l, c) == /\ RecipeIds = {1} /\ recipes[1].author_id = 1
                      /\ recipes[1].likes_count = l /\ recipes[1].comments_count = c
       IN
       /\ (UserIds = {} /\ Register("a@x", "a"))
          => (resp'.status = 200 /\ UserIds' = {1} /\ users'[1].role = "admin")
       /\ (UserIds = {1} /\ Register("b@x", "b"))
          => (resp'.status = 200 /\ UserIds' = {1, 2} /\ users'[2].role = "user"
              /\ users'[1] = users[1])
       /\ (UsersAB /\ nextRecipe = 1 /\ CreateRecipe(1, FALSE, 0))
          => (resp'.status = 200 /\ resp'.target = 1 /\ X(0, 0)')
       /\ (UsersAB /\ X(0, 0) /\ likes = {} /\ LikeRecipe(2, 1))
          => (resp'.status = 200 /\ resp'.flag /\ X(1, 0)' /\ Cardinality(likes') = 1
              /\ RowsOf(likes, 2, 1)' = likes')
       /\ (UsersAB /\ X(1, 0) /\ Cardinality(likes) = 1 /\ RowsOf(likes, 2, 1) = likes
           /\ LikeRecipe(2, 1))
          => (resp'.status = 200 /\ ~resp'.flag /\ X(0, 0)' /\ likes' = {})
       /\ (UsersAB /\ X(0, 0) /\ comments = {} /\ CreateComment(2, 1))
          => (resp'.status = 200 /\ X(0, 1)'
              /\ comments' = {[id |-> resp'.target, recipe_id |-> 1, user_id |-> 2]})
       /\ \A c \in comments :
             (UsersAB /\ X(0, 1) /\ comments = {c} /\ c.recipe_id = 1 /\ c.user_id = 2
              /\ DeleteComment(1, c.id))
             => (resp'.status = 200 /\ X(0, 0)' /\ comments' = {})
       /\ (UsersAB /\ X(0, 0) /\ DeleteRecipe(1, 1))
          => (resp'.status = 200 /\ RecipeIds' = {})
       /\ (RecipeIds = {} /\ nextRecipe = 2 /\ GetRecipe(1))
          => (resp'.status = 404 /\ resp'.detail = "Recipe not found")]_vars

\* The scenario has run to its end: A and B are stored, X and the like and comment
\* rows (ids 1 and 2) have come and gone, and the read of X was answered 404.
C11_Witness ==
    /\ resp.op = "get_recipe" /\ resp.target = 1 /\ resp.status = 404
    /\ UserIds = {1, 2} /\ users[1].role = "admin" /\ users[2].role = "user"
    /\ RecipeIds = {} /\ nextRecipe = 2 /\ nextRow = 3
    /\ likes = {} /\ comments = {}
    /\ users[1].recipes_count = 0

\* C12: with follow toggles run one at a time, every user's following_count is the
\* number of Follow rows with that follower_id and every user's followers_count the
\* number of Follow rows with that following_id; a follow toggle on a stored user
\* moves the actor's following_count and the target's followers_count by the same
\* amount, +1 on follow and -1 on unfollow.
C12_FollowCountersMatchRows ==
    /\ [](\A u \in UserIds :
            /\ users[u].following_count = Cardinality({f \in follows : f.follower_id = u})
            /\ users[u].followers_count = Cardinality({f \in follows : f.following_id = u}))
    /\ [][\A a \in UserIds : \A t \in UserIds \ {a} :
            (resp'.op = "follow" /\ FollowUser(a, t))
            => LET d == IF FollowsOf(a, t) = {} THEN 1 ELSE -1
               IN /\ resp'.status = 200 /\ resp'.flag = (d = 1)
                  /\ users'[a].following_count = users[a].following_count + d
                  /\ users'[t].followers_count = users[t].followers_count + d]_vars

\* An unfollow has just been answered while the follow in the other direction stands.
C12_Witness ==
    /\ resp.op = "follow" /\ resp.status = 200 /\ ~resp.flag
    /\ Cardinality(follows) = 1
    /\ \E f \in follows : f.follower_id = resp.target /\ f.following_id = resp.actor
    /\ users[resp.actor].followers_count = 1 /\ users[resp.actor].following_count = 0

\* C13: with create_comment, delete_comment and delete_recipe run one at a time,
\* every stored recipe's comments_count equals the number of Comment rows whose
\* recipe_id is that recipe.
C13_CommentsCountMatchesRows ==
    \A r \in RecipeIds :
        recipes[r].comments_count = Cardinality({c \in comments : c.recipe_id = r})

\* One comment on a recipe was deleted while another one on it stands.
C13_Witness ==
    /\ resp.op = "delete_comment" /\ resp.status = 200
    /\ \E r \in RecipeIds :
          /\ recipes[r].comments_count = 1
          /\ \E c \in comments : c.recipe_id = r /\ c.id # resp.target

\* C14: with create_recipe, update_recipe and delete_recipe run one at a time, by
\* authors and by admins and moderators, every user's recipes_count equals the
\* number of stored recipes whose author_id is that user.
C14_RecipesCountMatchesRecipes ==
    \A u \in UserIds :
        users[u].recipes_count = Cardinality({r \in RecipeIds : recipes[r].author_id = u})

\* A moderator has just edited another user's recipe: the author counts it, the
\* moderator does not.
C14_Witness ==
    /\ resp.op = "update_recipe" /\ resp.status = 200
    /\ users[resp.actor].role = "moderator" /\ users[resp.actor].recipes_count = 0
    /\ resp.target \in RecipeIds
    /\ recipes[resp.target].author_id # resp.actor
    /\ users[recipes[resp.target].author_id].recipes_count = 1

\* C15: create_recipe by user a stores one new recipe with author_id a, the three
\* counters 0, is_approved true, is_featured true iff a's role is chef at that
\* time, the requested is_paid, and the requested price if is_paid and 0
\* otherwise; it increments a's recipes_count by 1 and changes no other recipe
\* and no other user.
C15_CreateRecipeStoresRecipe ==
    [][\A a \in UserIds, p \in BOOLEAN, c \in Prices :
          (resp'.op = "create_recipe" /\ CreateRecipe(a, p, c))
          => LET id == resp'.target
             IN /\ resp'.status = 200
                /\ id \notin RecipeIds /\ RecipeIds' = RecipeIds \cup {id}
                /\ \A r \in RecipeIds : recipes'[r] = recipes[r]
                /\ recipes'[id].author_id = a
                /\ recipes'[id].likes_count = 0
                /\ recipes'[id].comments_count = 0
                /\ recipes'[id].saves_count = 0
                /\ recipes'[id].is_approved
                /\ recipes'[id].is_featured <=> (users[a].role = "chef")
                /\ recipes'[id].is_paid = p
                /\ recipes'[id].price = (IF p THEN c ELSE 0)
                /\ users' = [users EXCEPT ![a].recipes_count = @ + 1]]_vars

\* A chef has just created a free recipe with a requested price of 5: it is
\* featured and its price is 0.
C15_Witness ==
    /\ resp.op = "create_recipe" /\ resp.status = 200 /\ resp.target \in RecipeIds
    /\ users[resp.actor].role = "chef"
    /\ recipes[resp.target].author_id = resp.actor
    /\ recipes[resp.target].is_featured
    /\ ~recipes[resp.target].is_paid /\ recipes[resp.target].price = 0

\* C16: delete_comment answers 404 and changes nothing in the store whenever no
\* comment has the given id or the comment's recipe_id is no stored recipe.
C16_DeleteCommentNotFound ==
    [][\A a \in UserIds, c \in CommentIdInputs :
          (/\ resp'.op = "delete_comment"
           /\ DeleteComment(a, c)
           /\ \/ ~\E x \in comments : x.id = c
              \/ \E x \in comments : x.id = c /\ x.recipe_id \notin RecipeIds)
          => (resp'.status = 404 /\ UNCHANGED db)]_vars

\* C17: check_purchased changes nothing in the store; for a stored recipe it
\* answers 200 with purchased = true iff the recipe is free, or the actor is its
\* author, or the actor's role is admin or moderator, or a Purchase row exists
\* for (actor, recipe); for an id that is no stored recipe it answers 404.
C17_AccessCheck ==
    [][\A a \in UserIds, r \in RecipeIdInputs :
          (resp'.op = "check_purchased" /\ CheckPurchased(a, r))
          => /\ UNCHANGED db
             /\ IF r \in RecipeIds
                THEN /\ resp'.status = 200
                     /\ resp'.flag <=> \/ ~recipes[r].is_paid
                                       \/ recipes[r].author_id = a
                                       \/ users[a].role \in {"admin", "moderator"}
                                       \/ \E x \in purchases :
                                             x.user_id = a /\ x.recipe_id = r
                ELSE resp'.status = 404]_vars

\* A moderator who is not the author and holds no purchase was told purchased =
\* true for a paid recipe.
C17_Witness ==
    /\ resp.op = "check_purchased" /\ resp.status = 200 /\ resp.flag
    /\ users[resp.actor].role = "moderator"
    /\ resp.target \in RecipeIds
    /\ recipes[resp.target].is_paid /\ recipes[resp.target].author_id # resp.actor
    /\ PurchasesOf(resp.actor, resp.target) = {}

\* C18: purchase_recipe on a stored recipe whose is_paid is false answers 400
\* ("This recipe is free") and on an id that is no stored recipe answers 404, in
\* both cases leaving the purchases as they are; a Purchase row is only ever added
\* for a stored recipe that is paid at that time.
C18_PurchaseRefusedUnlessPaid ==
    [][/\ resp'.op = "purchase"
          => \A a \in UserIds, r \in RecipeIdInputs :
                PurchaseRecipe(a, r)
                => /\ r \notin RecipeIds
                        => (resp'.status = 404 /\ purchases' = purchases)
                   /\ (r \in RecipeIds /\ ~recipes[r].is_paid)
                        => (resp'.status = 400 /\ resp'.detail = "This recipe is free"
                            /\ purchases' = purchases)
       /\ \A x \in purchases' \ purchases :
             x.recipe_id \in RecipeIds /\ recipes[x.recipe_id].is_paid]_vars

\* A purchase was refused because the recipe is free, although the recipe was sold
\* while it was paid.
C18_Witness ==
    /\ resp.op = "purchase" /\ resp.status = 400 /\ resp.target \in RecipeIds
    /\ ~recipes[resp.target].is_paid
    /\ \E x \in purchases : x.recipe_id = resp.target

\* C19: a successful update_recipe keeps the recipe stored under its id and leaves
\* its author_id, is_approved, is_featured, likes_count, comments_count and
\* saves_count unchanged; a role change leaves every recipe unchanged, so
\* is_featured keeps the value given at creation.
C19_UpdateKeepsFlagsAndCounters ==
    [][/\ (resp'.op = "update_recipe" /\ resp'.status = 200)
          => LET r == resp'.target
             IN /\ r \in RecipeIds /\ RecipeIds' = RecipeIds
                /\ recipes'[r].author_id = recipes[r].author_id
                /\ recipes'[r].is_approved = recipes[r].is_approved
                /\ recipes'[r].is_featured = recipes[r].is_featured
                /\ recipes'[r].likes_count = recipes[r].likes_count
                /\ recipes'[r].comments_count = recipes[r].comments_count
                /\ recipes'[r].saves_count = recipes[r].saves_count
       /\ resp'.op = "update_user_role" => recipes' = recipes]_vars

\* A commented recipe created by a chef was edited by its author, who is no
\* chef any more: it is still featured.
C19_Witness ==
    /\ resp.op = "update_recipe" /\ resp.status = 200 /\ resp.target \in RecipeIds
    /\ recipes[resp.target].author_id = resp.actor
    /\ users[resp.actor].role = "user"
    /\ recipes[resp.target].is_featured
    /\ recipes[resp.target].comments_count = 1

\* C20: a stored user's role or is_active changes only in an update_user_role or
\* toggle_user_active request on that user by an actor whose role is admin at that
\* time; such requests by an actor of any other role answer 403 and leave the
\* users unchanged; get_users answers 403 iff the actor's role is neither admin
\* nor moderator, and changes nothing.
C20_OnlyAdminChangesRoleOrActive ==
    [][/\ \A u \in UserIds :
            (users'[u].role # users[u].role \/ users'[u].is_active # users[u].is_active)
            => /\ resp'.op \in {"update_user_role", "toggle_user_active"}
               /\ resp'.status = 200 /\ resp'.target = u
               /\ users[resp'.actor].role = "admin"
       /\ \A a \in UserIds, u \in UserIdInputs :
            users[a].role # "admin"
            => /\ \A role \in RoleInputs :
                    UpdateUserRole(a, u, role) => (resp'.status = 403 /\ users' = users)
               /\ ToggleUserActive(a, u) => (resp'.status = 403 /\ users' = users)
       /\ \A a \in UserIds :
            GetUsers(a)
            => /\ UNCHANGED db
               /\ IF users[a].role \in {"admin", "moderator"}
                  THEN resp'.status = 200 ELSE resp'.status = 403]_vars

\* A moderator was refused toggle-active on a user an admin had deactivated.
C20_Witness ==
    /\ resp.op = "toggle_user_active" /\ resp.status = 403
    /\ users[resp.actor].role = "moderator"
    /\ resp.target \in UserIds /\ ~users[resp.target].is_active

\* C21: every stored user's role is one of admin, moderator, chef and user; an
\* update_user_role request naming another value answers 400 for an admin (403 for
\* any other actor) and leaves the users unchanged.
C21_RoleDomain ==
    /\ [](\A u \in UserIds : users[u].role \in {"admin", "moderator", "chef", "user"})
    /\ [][resp'.op = "update_user_role"
          => \A a \in UserIds, u \in UserIdInputs :
                UpdateUserRole(a, u, "owner")
                => /\ resp'.status = (IF users[a].role = "admin" THEN 400 ELSE 403)
                   /\ users' = users]_vars

\* An admin's request to give a stored user the role "owner" was answered 400.
C21_Witness ==
    /\ resp.op = "update_user_role" /\ resp.status = 400 /\ resp.detail = "Invalid role"
    /\ resp.target \in UserIds /\ users[resp.actor].role = "admin"
    /\ users[resp.target].role = "user"

\* C22: no two stored users share an email or a username, also when registrations
\* interleave between their find_one checks and their insert_one.
C22_UniqueEmailAndUsername ==
    \A u, v \in UserIds :
        (users[u].email = users[v].email \/ users[u].username = users[v].username) => u = v

\* C23: with store calls that may raise, delete_recipe reports success only by the
\* step that decrements the author's recipes_count, taken when the recipe and every
\* Comment, Like and Save row of it are gone; a delete_recipe request whose store
\* call raises is answered 500, never 200.
C23_DeleteReportsSuccessOnlyWhenDone ==
    [][\A s \in Slots :
          (reqs[s].op = "delete_recipe" /\ reqs'[s].pc = "idle")
          => /\ Fail(s) => resp'.status = 500
             /\ resp'.status = 200
                => LET r == reqs[s].target IN
                   /\ r \notin RecipeIds'
                   /\ \A x \in comments' \cup likes' \cup saves' : x.recipe_id # r
                   /\ users' = [users EXCEPT ![reqs[s].author].recipes_count = @ - 1]]_vars

\* A delete_recipe request was answered 500 after it had removed the recipe: a
\* comment of the recipe is left and the author still counts the recipe.
C23_Witness ==
    /\ resp.op = "delete_recipe" /\ resp.status = 500
    /\ resp.target \notin RecipeIds
    /\ \E c \in comments : c.recipe_id = resp.target
    /\ \E u \in UserIds : users[u].recipes_count = 1

\* C24: with requests run one at a time and store calls that may raise, whenever no
\* request is in flight every likes_count, saves_count, following_count and
\* followers_count equals the number of rows it counts: a toggle whose store call
\* raised part-way left neither its row change nor its counter change behind.
C24_TogglesAllOrNothing ==
    Quiet =>
        /\ \A r \in RecipeIds :
              /\ recipes[r].likes_count = Cardinality({l \in likes : l.recipe_id = r})
              /\ recipes[r].saves_count = Cardinality({l \in saves : l.recipe_id = r})
        /\ \A u \in UserIds :
              /\ users[u].following_count = Cardinality({f \in follows : f.follower_id = u})
              /\ users[u].followers_count = Cardinality({f \in follows : f.following_id = u})

\* C25: a toggle request that has lost a race on its pair (the row it found absent
\* has been inserted by another request, or the row it found has been deleted by
\* another request) does not go on with the branch it chose on its stale read: it
\* neither inserts a second row for the pair nor deletes and decrements for a row
\* that is gone, but reads the relation again.
C25_LostRaceIsReResolved ==
    [][\A s \in Slots :
          /\ (reqs[s].pc = "insert" /\ Matches(reqs[s]) # {}) => reqs'[s].pc # "inc"
          /\ (reqs[s].pc = "delete" /\ \A x \in Matches(reqs[s]) : x.id # reqs[s].existing)
             => reqs'[s].pc # "dec"]_vars

\* C26: with operations run one at a time, the flag a like, save or follow toggle
\* answers with a 200 is TRUE when the row of (actor, target) was absent and FALSE
\* when it was present, and equals whether the row exists after the toggle; a check
\* endpoint answers whether the row exists and changes nothing, so a check of the
\* same actor and target right after a toggle answers the toggle's flag.
C26_ToggleFlagIsRowExistence ==
    [][/\ \A op \in ToggleOps :
             (resp'.op = op /\ resp'.status = 200)
             => /\ resp'.flag = ~Member(op, resp'.actor, resp'.target)
                /\ resp'.flag = Member(op, resp.actor, resp.target)'
       /\ \A a \in UserIds :
             /\ \A r \in RecipeIds :
                   /\ (resp'.op = "check_liked" /\ CheckLiked(a, r))
                      => /\ resp'.flag = Member("like", a, r) /\ db' = db
                         /\ (resp = Reply("like", a, r, 200, resp.flag, resp.detail)
                             => resp'.flag = resp.flag)
                   /\ (resp'.op = "check_saved" /\ CheckSaved(a, r))
                      => /\ resp'.flag = Member("save", a, r) /\ db' = db
                         /\ (resp = Reply("save", a, r, 200, resp.flag, resp.detail)
                             => resp'.flag = resp.flag)
             /\ \A t \in UserIds :
                   (resp'.op = "check_following" /\ CheckFollowing(a, t))
                   => /\ resp'.flag = Member("follow", a, t) /\ db' = db
                      /\ (resp = Reply("follow", a, t, 200, resp.flag, resp.detail)
                          => resp'.flag = resp.flag)]_vars

\* check_following has just answered TRUE for a follow whose reverse check would
\* answer FALSE, and check_liked can answer TRUE for the same user.
C26_Witness ==
    /\ resp.op = "check_following" /\ resp.flag
    /\ FollowsOf(resp.target, resp.actor) = {}
    /\ \E r \in RecipeIds : RowsOf(likes, resp.actor, r) # {} /\ RowsOf(saves, resp.actor, r) = {}

\* C27: login answers 200 with a token exactly when the email is a stored user's,
\* the password is the one that user registered with and the user is active; it
\* answers 401 for an unknown email or another password, 403 for the right password
\* of a deactivated account, and never changes the store. (A wrong password for a
\* deactivated account is answered 401: the password is checked first.)
C27_LoginOutcomes ==
    [][\A e \in Emails, p \in Passwords :
          (resp'.op = "login" /\ Login(e, p))
          => LET known == \E u \in UserIds : users[u].email = e
                 match == \A u \in UserIds : users[u].email = e => p = PasswordOf(e)
                 active == \A u \in UserIds : users[u].email = e => users[u].is_active
             IN /\ db' = db
                /\ resp'.flag = (resp'.status = 200)
                /\ resp'.status = IF ~known \/ ~match THEN 401
                                  ELSE IF ~active THEN 403 ELSE 200]_vars

\* The deactivated second user has just been refused with the right password.
C27_Witness ==
    /\ resp.op = "login" /\ resp.status = 403 /\ resp.actor = 2
    /\ ~users[2].is_active /\ users[1].is_active

C29_CountersNonNegative ==
    /\ \A r \in RecipeIds :
          /\ recipes[r].likes_count >= 0
          /\ recipes[r].saves_count >= 0
          /\ recipes[r].comments_count >= 0
    /\ \A u \in UserIds :
          /\ users[u].followers_count >= 0
          /\ users[u].following_count >= 0
          /\ users[u].recipes_count >= 0

\* C30: with operations run one at a time, every Like, Save and Comment row has the
\* recipe_id of a stored recipe: a like, save or comment request naming an id that
\* is not, or is no longer, a stored recipe's inserts no row.
C30_RowsReferenceStoredRecipes ==
    \A x \in likes \cup saves \cup comments : x.recipe_id \in RecipeIds

\* C31: with operations run one at a time, every Follow row's following_id is the
\* id of a stored user, and every user's following_count is the number of Follow
\* rows of that user whose target is a stored user: a follow request naming an id
\* that no stored user has inserts no row and moves no counter.
C31_FollowsReferenceStoredUsers ==
    /\ \A f \in follows : f.following_id \in UserIds
    /\ \A u \in UserIds :
          users[u].following_count
             = Cardinality({f \in follows : f.follower_id = u /\ f.following_id \in UserIds})

\* C32: in every state reached by create_recipe and update_recipe requests, every
\* stored recipe whose is_paid is FALSE has price 0.
C32_FreeRecipesHavePriceZero ==
    \A r \in RecipeIds : ~recipes[r].is_paid => recipes[r].price = 0

\* C33: a role change requested by an admin for a stored user with one of the four
\* roles is answered 200 and leaves that user with the requested role, whatever the
\* user's role was, the requested role included; 404 is answered only when the user
\* id is no stored user's.
C33_AdminRoleChangeSucceeds ==
    [][\A a \in UserIds, u \in UserIdInputs, role \in Roles :
          (resp'.op = "update_user_role" /\ UpdateUserRole(a, u, role))
          => /\ (users[a].role = UserRole.ADMIN /\ u \in UserIds)
                => (resp'.status = 200 /\ users'[u].role = role)
             /\ resp'.status = 404 => u \notin UserIds]_vars

\* C34: while a stored user's is_active is FALSE, no request authenticated as that
\* user (with a token of any age: a token carries the user's id only) is answered
\* 200; here the listing of users, the activation toggle and the role change.
C34_DeactivatedUserIsRefused ==
    [][\A a \in UserIds :
          ~users[a].is_active
          => /\ (resp'.op = "get_users" /\ GetUsers(a)) => resp'.status # 200
             /\ \A u \in UserIdInputs :
                   /\ (resp'.op = "toggle_user_active" /\ ToggleUserActive(a, u))
                      => resp'.status # 200
                   /\ \A role \in RoleInputs :
                         (resp'.op = "update_user_role" /\ UpdateUserRole(a, u, role))
                         => resp'.status # 200]_vars

\* C35: with registration requests against an empty store interleaved at their
\* store calls, exactly one stored user has role admin, whatever the interleaving:
\* the bootstrap rule makes the first registered user admin and every other a user.
C35_OneBootstrapAdmin ==
    UserIds # {} => Cardinality({u \in UserIds : users[u].role = UserRole.ADMIN}) = 1

\* C36: with delete_recipe and like requests interleaved at their store calls, once
\* every request has completed each user's recipes_count is the number of stored
\* recipes of that user (two deletes of one recipe have decremented it once in
\* total) and no Like, Save or Comment row has the recipe_id of a deleted recipe.
C36_ConcurrentDeletesCountOnce ==
    Quiet =>
        /\ \A u \in UserIds :
              users[u].recipes_count
                 = Cardinality({r \in RecipeIds : recipes[r].author_id = u})
        /\ \A x \in likes \cup saves \cup comments : x.recipe_id \in RecipeIds

====
